---- MODULE Spec2Model ----
(***************************************************************************)
(* Shadow-git extension (src/src/shadow-git.ts): N agent processes sharing *)
(* one workspace root.  Each process holds the extension's closure state   *)
(* (enabled, currentTurn, toolCallCount, stats, agentRepoInitialized) and  *)
(* runs one lifecycle handler at a time; a handler is suspended at every   *)
(* awaited pi.exec call, where the operator commands and the other         *)
(* processes may run.  The filesystem holds the per-agent audit file, the  *)
(* git repositories (workspace root and agents/{name}) and the shared      *)
(* patch directory.                                                        *)
(*                                                                         *)
(* Strings that the code takes apart or compares by prefix (paths, file    *)
(* names, commit messages) are sequences of tokens; "/" is a token.        *)
(***************************************************************************)
EXTENDS Naturals, Sequences, FiniteSets, TLC

\* ------------------------------------------------------------------ bounds
\* lifecycle events and operator commands dispatched, over all processes
MaxEvents == 3
\* subprocess and filesystem operations that fail, over all processes
MaxFaults == 1
\* largest turnIndex the host passes
MaxTurn == 1
\* events dispatched in the failure-free runs of SpecRun
MaxRunEvents == 6

\* ------------------------------------------------------------ input domains
\* PI_AGENT_NAME of each process: pairwise distinct directory names
Agents == {"a1", "a2"}
None == <<>>
NoPath == <<"undefined">>
ToolNames == {"write", "edit", "bash"}
ToolCallIds == {"c1"}
ToolResultCounts == {0, 2}
ExecOutcomes == {"ok", "nonzero", "throw"}
\* indices of the synchronous filesystem operations of one step that may throw
FsOps == 1..3

\* ------------------------------------------------------------------- paths
Sep == "/"
\* PI_WORKSPACE_ROOT, shared by the processes
workspaceRoot == <<Sep, "ws">>
\* configured target repositories and the paths the tools touch
TargetA == <<Sep, "r", Sep, "A">>
TargetB == <<Sep, "r", Sep, "B">>
InternalFile == workspaceRoot \o <<Sep, "out.txt">>
SiblingFile == <<Sep, "ws", "-old", Sep, "f.ts">>
FileInA == TargetA \o <<Sep, "f.ts">>
FileInB == TargetB \o <<Sep, "g.ts">>
\* a path relative to the working directory of the process
RelativeFile == <<"notes.md">>
FilePaths == {NoPath, RelativeFile, FileInA}
\* a directory above TargetA, a file of a directory whose name extends
\* TargetA's, a file under no configured repository
Up == <<Sep, "r">>
FileInAB == <<Sep, "r", Sep, "A", "B", Sep, "x.ts">>
OtherFile == <<Sep, "tmp", Sep, "x.ts">>
\* a directory that is neither in the workspace nor a target repository
Outside == <<Sep, "outside">>
AllPaths ==
    FilePaths \cup {InternalFile, SiblingFile, FileInB, FileInAB, OtherFile}

\* String.prototype.startsWith
StartsWith(s, prefix) ==
    /\ Len(prefix) <= Len(s)
    /\ SubSeq(s, 1, Len(prefix)) = prefix

\* path.isAbsolute
isAbsolute(p) == Len(p) > 0 /\ p[1] = Sep

\* path.join of an absolute path and relative pieces free of "." and ".."
join(a, b) == a \o <<Sep>> \o b

\* index of the last separator of p, 0 when there is none
LastSep(p) ==
    LET idx == {i \in 1..Len(p) : p[i] = Sep}
    IN  IF idx = {} THEN 0 ELSE CHOOSE i \in idx : \A j \in idx : j <= i

\* path.dirname (paths without a trailing separator)
dirname(p) ==
    LET i == LastSep(p)
    IN  IF i = 0 THEN <<".">>
        ELSE IF i = 1 THEN <<Sep>>
        ELSE SubSeq(p, 1, i - 1)

\* s.split("/").pop(): what follows the last separator
LastSegment(p) == SubSeq(p, LastSep(p) + 1, Len(p))

\* ------------------------------------------------------------- formatting
DigitChars == <<"0", "1", "2", "3", "4", "5", "6", "7", "8", "9">>

\* String(n) for a natural number
RECURSIVE Decimal(_)
Decimal(n) ==
    IF n < 10 THEN <<DigitChars[n + 1]>>
    ELSE Decimal(n \div 10) \o <<DigitChars[(n % 10) + 1]>>

\* s.padStart(3, "0")
RECURSIVE PadStart3(_)
PadStart3(s) == IF Len(s) >= 3 THEN s ELSE PadStart3(<<"0">> \o s)

\* ------------------------------------------------------------ configuration
\* PI_TARGET_REPOS / PI_TARGET_BRANCH of a process (config, lines 95-107)
Configs ==
    { [targetRepos |-> <<>>, targetBranch |-> None],
      [targetRepos |-> <<TargetA, TargetB>>, targetBranch |-> <<"feat">>] }

\* the configurations the path classification is exercised with
ClassifyConfigs ==
    Configs \cup { [targetRepos |-> <<Up, TargetA>>, targetBranch |-> None] }

agentDir(a) == join(join(workspaceRoot, <<"agents">>), <<a>>)
patchDir == join(workspaceRoot, <<"target-patches">>)
Dirs == {workspaceRoot} \cup {agentDir(a) : a \in Agents}
\* the directories a process may be started in: its agent directory, a
\* directory outside the workspace, a target repository
Cwds(a) == {agentDir(a), Outside, TargetA}
\* a file the orchestrator has put into the agent directory before the start
PlanFile(a) == join(agentDir(a), <<"plan.md">>)

VARIABLES
    config,      \* [Agents -> Configs]: the immutable Config of each process
    workDir,     \* [Agents -> path]: the working directory of each process
    workFiles,   \* [Agents -> set of paths]: the files of agents/{name} other
                 \*  than .gitignore and audit.jsonl
    env,         \* [Agents -> BOOLEAN]: PI_SHADOW_GIT_DISABLED is "1" or "true"
    proc,        \* [Agents -> closure state, handler position and its locals]
    auditFile,   \* [Agents -> Seq(entry)]: the lines of agents/{name}/audit.jsonl
    gitignore,   \* [Agents -> BOOLEAN]: agents/{name}/.gitignore holds "audit.jsonl"
    repos,       \* [Dirs -> repository]: the .git of the root and of each agent dir
    patchWrites, \* set of <<agent, path>>: patch files written, and by whom
    obs,         \* [Agents -> what the host has passed and the tools returned:
                 \*  the tool events dispatched, the last path classified,
                 \*  the outcome of the last git diff, for every patch
                 \*  written the target repository and the file, the
                 \*  turnIndex of the last turn_start (0 before any) and of
                 \*  the last turn_start or turn_end, and the number of
                 \*  tool results of the last turn_end]
    hist,        \* [Agents -> history: trace of the events and commands dispatched,
                 \*  kinds of operation that failed, number of failed subprocess
                 \*  calls and filesystem operations, a handler ended by throwing,
                 \*  the engine has been disabled at some point]
    dispatched,  \* events and commands dispatched and changes of the
                 \*  environment so far, over all processes
    budget,      \* the number of them the run may hold
    faults       \* operations that have failed so far, over all processes

vars == <<config, workDir, workFiles, env, proc, auditFile, gitignore, repos, patchWrites, obs,
          hist, dispatched, budget, faults>>

\* process.cwd() (lines 249, 258)
processCwd(a) == workDir[a]

ProcFields == {"enabled", "currentTurn", "toolCallCount", "stats",
               "agentRepoInitialized", "pc", "handler", "message",
               "patchFile", "filePath", "cmdpc", "pendingLogs"}

\* lines 121-132: the state a process starts with
InitProc(killswitch) ==
    [ enabled |-> ~killswitch,
      currentTurn |-> 0,
      toolCallCount |-> 0,
      stats |-> [commits |-> 0, commitErrors |-> 0, toolCalls |-> 0,
                 turns |-> 0, patchesCaptured |-> 0],
      agentRepoInitialized |-> FALSE,
      pc |-> "idle",
      handler |-> "none",
      message |-> None,
      patchFile |-> None,
      filePath |-> None,
      cmdpc |-> "idle",
      pendingLogs |-> 0 ]

NoRepo == [exists |-> FALSE, index |-> {}, commits |-> <<>>]

InitOf(Cs) ==
    /\ budget \in {MaxEvents, MaxRunEvents}
    /\ config \in [Agents -> Cs]
    /\ workDir \in [Agents -> UNION {Cwds(a) : a \in Agents}]
    /\ \A a \in Agents : workDir[a] \in Cwds(a)
    /\ workFiles \in [Agents -> SUBSET {PlanFile(a) : a \in Agents}]
    /\ \A a \in Agents : workFiles[a] \subseteq {PlanFile(a)}
    /\ env \in [Agents -> BOOLEAN]
    /\ proc = [a \in Agents |-> InitProc(env[a])]
    /\ auditFile = [a \in Agents |-> <<>>]
    /\ gitignore = [a \in Agents |-> FALSE]
    /\ repos = [d \in Dirs |->
                  IF d = workspaceRoot
                  THEN [exists |-> TRUE, index |-> {}, commits |-> <<>>]
                  ELSE NoRepo]
    /\ patchWrites = {}
    /\ obs = [a \in Agents |-> [tools |-> <<>>, cls |-> None, diff |-> "",
                               captures |-> {}, started |-> 0, turnIndex |-> 0,
                               toolCount |-> 0]]
    /\ hist = [a \in Agents |->
                 [trace |-> <<>>, failed |-> {}, nexec |-> 0, nfs |-> 0,
                  threw |-> FALSE, off |-> env[a]]]
    /\ dispatched = 0
    /\ faults = 0

\* every process started in its agent directory, which holds its plan
Init ==
    /\ InitOf(Configs)
    /\ budget = MaxEvents
    /\ \A a \in Agents : workDir[a] = agentDir(a) /\ workFiles[a] = {PlanFile(a)}

\* ------------------------------------------------- one step of one process
\* The working record of a step: the process's closure state, its audit file,
\* the number k of filesystem operations the step has performed and the set
\* fail of the indices of those that throw.
Work(a, F) ==
    proc[a] @@ [name |-> a, audit |-> auditFile[a], k |-> 0, fail |-> F,
                fs |-> {}, threw |-> FALSE]

Proj(w) == [f \in ProcFields |-> w[f]]

\* a filesystem operation of kind op is performed: it is the next in the step
FsStep(w, op) ==
    [w EXCEPT !.k = @ + 1,
              !.fs = IF (w.k + 1) \in w.fail THEN @ \cup {op} ELSE @]
FsFails(w) == (w.k + 1) \in w.fail

\* mutant: a failing append aborts the handler
emitAborting(w, event, data) ==
    IF ~w.enabled THEN w
    ELSE LET entry == [event |-> event,
                       agent |-> w.name,
                       turn |-> IF "turn" \in DOMAIN data THEN data.turn
                                ELSE w.currentTurn,
                       data |-> data]
         IN  IF FsFails(w) THEN [FsStep(w, "append") EXCEPT !.threw = TRUE]
             ELSE [FsStep(w, "append") EXCEPT !.audit = Append(@, entry)]

\* mutant: the entry is written at the head of the file
emitAtHead(w, event, data) ==
    IF ~w.enabled THEN w
    ELSE LET entry == [event |-> event,
                       agent |-> w.name,
                       turn |-> IF "turn" \in DOMAIN data THEN data.turn
                                ELSE w.currentTurn,
                       data |-> data]
         IN  IF FsFails(w) THEN FsStep(w, "append")
             ELSE [FsStep(w, "append") EXCEPT !.audit = <<entry>> \o @]

\* mutant: the file is written, not appended to
emitRewriting(w, event, data) ==
    IF ~w.enabled THEN w
    ELSE LET entry == [event |-> event,
                       agent |-> w.name,
                       turn |-> IF "turn" \in DOMAIN data THEN data.turn
                                ELSE w.currentTurn,
                       data |-> data]
         IN  IF FsFails(w) THEN FsStep(w, "append")
             ELSE [FsStep(w, "append") EXCEPT !.audit = <<entry>>]

\* lines 184-200
emit(w, event, data) ==
    IF ~w.enabled THEN w
    ELSE LET entry == [event |-> event,
                       agent |-> w.name,
                       turn |-> IF "turn" \in DOMAIN data THEN data.turn
                                ELSE w.currentTurn,
                       data |-> data]
         IN  IF FsFails(w) THEN FsStep(w, "append")
             ELSE [FsStep(w, "append") EXCEPT !.audit = Append(@, entry)]

Return(w) ==
    [w EXCEPT !.pc = "idle", !.handler = "none", !.message = None,
              !.patchFile = None, !.filePath = None]


\* --------------------------------------------------------------- messages
\* line 354
StartMessage(a) == <<"[", a, ":start] session began">>

\* mutant: the summary always gives the count
TurnMessageCounted(a, turnIndex, toolCount) ==
    <<"[", a, ":turn-">> \o Decimal(turnIndex) \o <<"] ">>
        \o Decimal(toolCount) \o <<" tools">>

\* lines 403-404
TurnMessage(a, turnIndex, toolCount) ==
    <<"[", a, ":turn-">> \o Decimal(turnIndex) \o <<"] ">>
        \o (IF toolCount > 0 THEN Decimal(toolCount) \o <<" tools">>
            ELSE <<"no tools">>)

\* lines 216-218
fullMessage(cfg, message) ==
    IF cfg.targetBranch # None
    THEN message \o <<" [target: ">> \o cfg.targetBranch \o <<"]">>
    ELSE message

InitialMessage == <<"agent initialized">>

\* ------------------------------------------------------------ git and files
auditFilePath(a) == join(agentDir(a), <<"audit.jsonl">>)
gitignorePath(a) == join(agentDir(a), <<".gitignore">>)

\* mutant: the commands run in the workspace root, as before the per-agent repos
ExecCwdRoot(a) == workspaceRoot

\* the { cwd: config.agentDir } of the init, add and commit calls
ExecCwd(a) == agentDir(a)

\* git finds the repository of a command in cwd or, failing that, above it
Discover(rs, cwd) ==
    IF rs[cwd].exists THEN cwd
    ELSE IF rs[workspaceRoot].exists THEN workspaceRoot
    ELSE None

\* the files of agents/{a} that exist, and those its .gitignore excludes
Present(a) ==
    (IF gitignore[a] THEN {gitignorePath(a)} ELSE {})
        \cup (IF auditFile[a] # <<>> THEN {auditFilePath(a)} ELSE {})
        \cup workFiles[a]
Ignored(a) == IF gitignore[a] THEN {auditFilePath(a)} ELSE {}

\* git init in cwd
GitInit(rs, cwd) == [rs EXCEPT ![cwd].exists = TRUE]

\* git add of the given files, in the repository found from cwd
GitAdd(rs, cwd, files) ==
    LET d == Discover(rs, cwd)
    IN  IF d = None THEN rs ELSE [rs EXCEPT ![d].index = @ \cup files]

\* git commit -m message --allow-empty, in the repository found from cwd
GitCommit(rs, cwd, message) ==
    LET d == Discover(rs, cwd)
    IN  IF d = None THEN rs
        ELSE [rs EXCEPT ![d].commits =
                 Append(@, [message |-> message, files |-> rs[d].index])]

\* ------------------------------------------------------- commit (202-246)
\* mutant: the commit is put on a queue that another process has to drain
gitCommitInternalQueued(w, message) ==
    IF ~w.agentRepoInitialized THEN Return(w)
    ELSE [w EXCEPT !.pc = "queued", !.message = message]

\* lines 202-213: skip when the repository is not initialized, else git add -A
gitCommitInternal(w, message) ==
    IF ~w.agentRepoInitialized THEN Return(w)
    ELSE [w EXCEPT !.pc = "add", !.message = message]

\* lines 243-246
gitCommit(w, message) ==
    IF ~w.enabled THEN Return(w) ELSE gitCommitInternal(w, message)

\* mutant: the failure is recorded but not counted
commitCatchUncounted(w) ==
    Return(emit(w, "commit_error", [message |-> w.message, error |-> "err"]))

\* lines 233-239: the catch of gitCommitInternal, and the handler's return
commitCatch(w) ==
    Return(emit([w EXCEPT !.stats.commitErrors = @ + 1], "commit_error",
                [message |-> w.message, error |-> "err"]))

\* lines 210-225: git add -A has completed with outcome o
commitAfterAdd(w, o) ==
    IF o = "ok" THEN [w EXCEPT !.pc = "commit"] ELSE commitCatch(w)

\* mutant: a created commit is not counted
commitAfterCommitUncounted(w, o) ==
    IF o = "ok" THEN Return(w) ELSE commitCatch(w)

\* lines 227-232: git commit has completed with outcome o
commitAfterCommit(w, o) ==
    IF o = "ok" THEN Return([w EXCEPT !.stats.commits = @ + 1])
    ELSE commitCatch(w)

\* ------------------------------------------------ session_start (340-355)
\* lines 351-354: initAgentRepo has returned and the handler goes on
sessionStartRest(w) ==
    gitCommit(emit(w, "session_start", <<>>), StartMessage(w.name))

\* lines 171-176: the catch of initAgentRepo; the handler is resumed later
initCatch(w) ==
    [emit(w, "git_init_error", [error |-> "err"]) EXCEPT !.pc = "init_done"]

\* mutant: the repository is taken as initialized without running git init
initAgentRepoNoInit(w, exists) ==
    [w EXCEPT !.agentRepoInitialized = TRUE, !.pc = "init_done"]

\* mutant: git init runs whether or not the repository exists
initAgentRepoAlways(w, exists) == [w EXCEPT !.pc = "init"]

\* lines 144-155: exists is existsSync(agentDir/.git)
initAgentRepo(w, exists) ==
    IF exists THEN [w EXCEPT !.agentRepoInitialized = TRUE, !.pc = "init_done"]
    ELSE [w EXCEPT !.pc = "init"]

\* lines 155-165: git init has completed with outcome o
initAfterInit(w, o) ==
    IF o # "ok" THEN initCatch(w)
    ELSE IF FsFails(w) THEN initCatch(FsStep(w, "gitignore"))
    ELSE [FsStep(w, "gitignore") EXCEPT !.pc = "init_add"]

\* lines 165-166: git add .gitignore has completed (its exit code is not read)
initAfterAdd(w, o) ==
    IF o = "throw" THEN initCatch(w) ELSE [w EXCEPT !.pc = "init_commit"]

\* lines 166-170: the initial commit has completed (its exit code is not read)
initAfterCommit(w, o) ==
    IF o = "throw" THEN initCatch(w)
    ELSE [emit([w EXCEPT !.agentRepoInitialized = TRUE],
               "git_init", [agentDir |-> agentDir(w.name)])
            EXCEPT !.pc = "init_done"]

\* mutant: the session_start entry is written before the repository is set up
session_startEntryFirst(w, killswitch, exists) ==
    LET w1 == [w EXCEPT !.enabled = IF killswitch THEN FALSE ELSE @,
                        !.handler = "session_start"]
    IN  IF ~w1.enabled THEN Return(w1)
        ELSE initAgentRepo(emit(w1, "session_start", <<>>), exists)

\* mutant: the flag is set from the kill-switch in both directions
session_startResets(w, killswitch, exists) ==
    LET w1 == [w EXCEPT !.enabled = ~killswitch, !.handler = "session_start"]
    IN  IF ~w1.enabled THEN Return(w1) ELSE initAgentRepo(w1, exists)

\* lines 340-351
session_start(w, killswitch, exists) ==
    LET w1 == [w EXCEPT !.enabled = IF killswitch THEN FALSE ELSE @,
                        !.handler = "session_start"]
    IN  IF ~w1.enabled THEN Return(w1) ELSE initAgentRepo(w1, exists)


\* ------------------------------------------- session_shutdown, agent_end
MessageCounts == {1}

\* mutant: the entry embeds the counters as they were at process start
session_shutdownStale(w) ==
    IF ~w.enabled THEN Return(w)
    ELSE Return(emit(w, "session_shutdown", [stats |-> InitProc(FALSE).stats]))

\* lines 357-363
session_shutdown(w) ==
    IF ~w.enabled THEN Return(w)
    ELSE Return(emit(w, "session_shutdown", [stats |-> w.stats]))

\* lines 369-375
agent_end(w, messageCount) ==
    IF ~w.enabled THEN Return(w)
    ELSE Return(emit(w, "agent_end",
                     [messageCount |-> messageCount, stats |-> w.stats]))

\* ------------------------------------------------------------ turn events
\* mutant: the turn is counted only when the engine is enabled
turn_startGuarded(w, turnIndex) ==
    IF ~w.enabled THEN Return(w)
    ELSE Return(emit([w EXCEPT !.currentTurn = turnIndex, !.stats.turns = @ + 1],
                     "turn_start", [turn |-> turnIndex]))

\* mutant: the current turn is set only when the engine is enabled
turn_startUntracked(w, turnIndex) ==
    LET w1 == [w EXCEPT !.stats.turns = @ + 1]
    IN  IF ~w1.enabled THEN Return(w1)
        ELSE Return(emit([w1 EXCEPT !.currentTurn = turnIndex],
                         "turn_start", [turn |-> turnIndex]))

\* lines 381-389
turn_start(w, turnIndex) ==
    LET w1 == [w EXCEPT !.currentTurn = turnIndex, !.stats.turns = @ + 1]
    IN  IF ~w1.enabled THEN Return(w1)
        ELSE Return(emit(w1, "turn_start", [turn |-> turnIndex]))

\* lines 391-406
turn_end(w, turnIndex, toolCount) ==
    IF ~w.enabled THEN Return(w)
    ELSE gitCommit(emit([w EXCEPT !.handler = "turn_end"], "turn_end",
                        [turn |-> turnIndex, toolResultCount |-> toolCount]),
                   TurnMessage(w.name, turnIndex, toolCount))

\* ------------------------------------------------------------ tool events
\* mutant: a checkpoint commit after every tool call
tool_callCommits(w, toolName, toolCallId) ==
    LET w1 == [w EXCEPT !.toolCallCount = @ + 1, !.stats.toolCalls = @ + 1,
                        !.handler = "tool_call"]
    IN  IF ~w1.enabled THEN Return(w1)
        ELSE gitCommit(emit(w1, "tool_call",
                            [tool |-> toolName, toolCallId |-> toolCallId]),
                       <<"[", w.name, ":tool] ", toolName>>)

\* mutant: the tool call is recorded but not counted in the statistics
tool_callUncounted(w, toolName, toolCallId) ==
    LET w1 == [w EXCEPT !.toolCallCount = @ + 1]
    IN  IF ~w1.enabled THEN Return(w1)
        ELSE Return(emit(w1, "tool_call",
                         [tool |-> toolName, toolCallId |-> toolCallId]))

\* lines 412-423
tool_call(w, toolName, toolCallId) ==
    LET w1 == [w EXCEPT !.toolCallCount = @ + 1, !.stats.toolCalls = @ + 1]
    IN  IF ~w1.enabled THEN Return(w1)
        ELSE Return(emit(w1, "tool_call",
                         [tool |-> toolName, toolCallId |-> toolCallId]))

\* lines 248-270; null is None
isTargetRepoPath(cfg, cwd, filePath) ==
    LET absPath == IF isAbsolute(filePath) THEN filePath ELSE join(cwd, filePath)
        absRepo(i) == IF isAbsolute(cfg.targetRepos[i]) THEN cfg.targetRepos[i]
                      ELSE join(cwd, cfg.targetRepos[i])
        hits == {i \in 1..Len(cfg.targetRepos) : StartsWith(absPath, absRepo(i))}
    IN  IF StartsWith(absPath, workspaceRoot) THEN None
        ELSE IF hits # {}
             THEN cfg.targetRepos[CHOOSE i \in hits : \A j \in hits : i <= j]
        ELSE IF Len(cfg.targetRepos) = 0 /\ ~StartsWith(absPath, workspaceRoot)
             THEN <<"unknown">>
        ELSE None

\* lines 280-282
repoName(targetRepo) ==
    IF targetRepo = <<"unknown">> THEN <<"target">>
    ELSE LET seg == LastSegment(dirname(targetRepo))
         IN  IF seg = <<>> THEN <<"repo">> ELSE seg

\* mutant: the turn index is not padded
patchFilePathUnpadded(targetRepo, turn, toolName, count) ==
    join(join(patchDir, repoName(targetRepo)),
         <<"turn-">> \o Decimal(turn) \o <<"-", toolName, "-">>
             \o Decimal(count) \o <<".patch">>)

\* lines 286-289
patchFilePath(targetRepo, turn, toolName, count) ==
    join(join(patchDir, repoName(targetRepo)),
         <<"turn-">> \o PadStart3(Decimal(turn)) \o <<"-", toolName, "-">>
             \o Decimal(count) \o <<".patch">>)

\* lines 272-298: up to the awaited git diff
capturePatch(w, targetRepo, filePath, toolName) ==
    IF ~w.enabled THEN Return(w)
    ELSE IF FsFails(w)
         THEN Return(emit(FsStep(w, "mkdir"), "patch_error",
                          [file |-> filePath, error |-> "err"]))
    ELSE [FsStep(w, "mkdir") EXCEPT
             !.pc = "diff",
             !.filePath = filePath,
             !.patchFile = patchFilePath(targetRepo, w.currentTurn, toolName,
                                         w.toolCallCount)]

\* mutant: a checkpoint commit at the end of every captured tool result
captureAfterDiffCommits(w, o) ==
    gitCommit([w EXCEPT !.patchFile = None, !.filePath = None],
              <<"[", w.name, ":tool] result">>)

\* mutant: the output of a diff that exits with code 0 is written, empty or not
captureAfterDiffAnyOutput(w, o) ==
    IF o = "throw"
    THEN Return(emit(w, "patch_error", [file |-> w.filePath, error |-> "err"]))
    ELSE IF o \notin {"ok", "empty"} THEN Return(w)
    ELSE Return(emit([FsStep(w, "patch") EXCEPT !.stats.patchesCaptured = @ + 1],
                     "patch_captured",
                     [file |-> w.filePath, patch |-> w.patchFile]))

\* lines 300-308: git diff has completed; "ok" is exit code 0 with output
captureAfterDiff(w, o) ==
    IF o = "throw"
    THEN Return(emit(w, "patch_error", [file |-> w.filePath, error |-> "err"]))
    ELSE IF o # "ok" THEN Return(w)
    ELSE IF FsFails(w)
         THEN Return(emit(FsStep(w, "patch"), "patch_error",
                          [file |-> w.filePath, error |-> "err"]))
    ELSE Return(emit([FsStep(w, "patch") EXCEPT !.stats.patchesCaptured = @ + 1],
                     "patch_captured",
                     [file |-> w.filePath, patch |-> w.patchFile]))

\* lines 425-448; a missing input.path makes isAbsolute throw out of the handler
tool_result(w, cfg, toolName, toolCallId, filePath) ==
    IF ~w.enabled THEN Return(w)
    ELSE LET w1 == emit([w EXCEPT !.handler = "tool_result"], "tool_result",
                        [tool |-> toolName, toolCallId |-> toolCallId])
             targetRepo == isTargetRepoPath(cfg, processCwd(w.name), filePath)
         IN  IF toolName \notin {"write", "edit"} THEN Return(w1)
             ELSE IF filePath = NoPath THEN Return([w1 EXCEPT !.threw = TRUE])
             ELSE IF targetRepo = None THEN Return(w1)
             ELSE capturePatch(w1, targetRepo, filePath, toolName)

\* mutant: the command records the entry but leaves the flag set
setEnabledStuck(w, val) ==
    emit([w EXCEPT !.enabled = TRUE], IF val THEN "enabled" ELSE "disabled", <<>>)

\* ---------------------------------------------------- commands (326-334)
setEnabled(w, val) ==
    emit([w EXCEPT !.enabled = val], IF val THEN "enabled" ELSE "disabled", <<>>)


\* the argument strings of /shadow-git, as lists of words
ArgLists ==
    {<<>>, <<"status">>, <<"enable">>, <<"disable">>, <<"history">>,
     <<"stats">>, <<"bogus">>}

\* line 472: args.trim().split(/\s+/)[0] || "status"
subcommand(args) == IF args = <<>> THEN "status" ELSE args[1]

\* mutant: the handler does not look at the configuration
shadowGitCommandUnchecked(w, cfg, sub) ==
    CASE sub = "enable" -> setEnabled(w, TRUE)
      [] sub = "disable" -> setEnabled(w, FALSE)
      [] sub = "history" -> [w EXCEPT !.cmdpc = "history",
                                            !.pendingLogs = @ + 1]
      [] OTHER -> w

\* lines 470-552: the command handler up to its awaited git log; status,
\* stats and an unknown subcommand only write to the user interface
shadowGitCommand(w, cfg, sub) ==
    IF cfg = None THEN w
    ELSE CASE sub = "enable" -> setEnabled(w, TRUE)
           [] sub = "disable" -> setEnabled(w, FALSE)
           [] sub = "history" -> [w EXCEPT !.cmdpc = "history",
                                            !.pendingLogs = @ + 1]
           [] OTHER -> w

\* lines 518-534: one of the pending git log calls has completed with
\* outcome o; the call is not inside a try block
historyAfterLog(w, o) ==
    LET left == w.pendingLogs - 1
        rest == [w EXCEPT !.pendingLogs = left,
                          !.cmdpc = IF left = 0 THEN "idle" ELSE "history"]
    IN  IF o = "throw" THEN [rest EXCEPT !.threw = TRUE] ELSE rest

\* ----------------------------------------------------------------- actions
\* The step of process a ends in working record w; ev names what was
\* dispatched (NoEvent for the completion of a subprocess call); execFailed says
\* that the subprocess call it completes failed.
NoEvent == ""

Step(a, w, ev, execFailed) ==
    LET n == Cardinality(w.fail) + (IF execFailed THEN 1 ELSE 0)
    IN  /\ \A i \in w.fail : i <= w.k
        /\ faults + n <= MaxFaults
        /\ faults' = faults + n
        /\ budget' = budget
        /\ proc' = [proc EXCEPT ![a] = Proj(w)]
        /\ auditFile' = [auditFile EXCEPT ![a] = w.audit]
        /\ hist' = [hist EXCEPT ![a] =
               [trace |-> IF ev = NoEvent THEN @.trace ELSE Append(@.trace, ev),
                failed |-> @.failed \cup w.fs
                             \cup (IF execFailed THEN {"exec"} ELSE {}),
                nexec |-> @.nexec + (IF execFailed THEN 1 ELSE 0),
                nfs |-> @.nfs + Cardinality(w.fail),
                threw |-> @.threw \/ w.threw,
                off |-> @.off \/ ~w.enabled]]

\* the host dispatches an event to an idle process, or the operator a command
Dispatch(a, w, ev) ==
    /\ dispatched < budget
    /\ dispatched' = dispatched + 1
    /\ Step(a, w, ev, FALSE)

Idle(a) == proc[a].pc = "idle"

\* In every action FS is the set of sets of filesystem operations of the step
\* that may throw, and O the outcomes the completing subprocess call may have.
SessionStart(a, FS) ==
    /\ Idle(a)
    /\ \E F \in FS :
          Dispatch(a, session_start(Work(a, F), env[a],
                                    repos[agentDir(a)].exists),
                   "session_start")
    /\ UNCHANGED <<obs, config, workDir, workFiles, env, gitignore, repos,
                   patchWrites>>

SessionShutdown(a, FS) ==
    /\ Idle(a)
    /\ \E F \in FS :
          Dispatch(a, session_shutdown(Work(a, F)), "session_shutdown")
    /\ UNCHANGED <<obs, config, workDir, workFiles, env, gitignore, repos,
                   patchWrites>>

AgentEnd(a, FS) ==
    /\ Idle(a)
    /\ \E F \in FS, n \in MessageCounts :
          Dispatch(a, agent_end(Work(a, F), n), "agent_end")
    /\ UNCHANGED <<obs, config, workDir, workFiles, env, gitignore, repos,
                   patchWrites>>

TurnStart(a, FS, Turns) ==
    /\ Idle(a)
    /\ \E F \in FS, t \in Turns :
          /\ Dispatch(a, turn_start(Work(a, F), t), "turn_start")
          /\ obs' = [obs EXCEPT ![a].started = t, ![a].turnIndex = t]
    /\ UNCHANGED <<config, workDir, workFiles, env, gitignore, repos,
                   patchWrites>>

TurnEnd(a, FS, Turns, Counts) ==
    /\ Idle(a)
    /\ \E F \in FS, t \in Turns, n \in Counts :
          /\ Dispatch(a, turn_end(Work(a, F), t, n), "turn_end")
          /\ obs' = [obs EXCEPT ![a].turnIndex = t, ![a].toolCount = n]
    /\ UNCHANGED <<config, workDir, workFiles, env, gitignore, repos,
                   patchWrites>>

ToolCall(a, FS, Tools, Ids) ==
    /\ Idle(a)
    /\ \E F \in FS, tool \in Tools, id \in Ids :
          /\ Dispatch(a, tool_call(Work(a, F), tool, id), "tool_call")
          /\ obs' = [obs EXCEPT ![a].tools =
                        Append(@, [event |-> "tool_call", tool |-> tool,
                                   id |-> id, enabled |-> proc[a].enabled])]
    /\ UNCHANGED <<config, workDir, workFiles, env, gitignore, repos,
                   patchWrites>>

\* the absolute form of a path of process a (line 249)
AbsPath(a, p) == IF isAbsolute(p) THEN p ELSE join(processCwd(a), p)

\* a write or edit result carries input.path (or lacks it), other tools none;
\* the tool has written the file, which may lie in the agent directory
ToolResult(a, FS, Tools, Ids, Paths) ==
    /\ Idle(a)
    /\ \E F \in FS, tool \in Tools, id \in Ids, path \in Paths :
          /\ tool \notin {"write", "edit"} => path = NoPath
          /\ Dispatch(a, tool_result(Work(a, F), config[a], tool, id, path),
                      "tool_result")
          /\ obs' = [obs EXCEPT
                ![a].tools = Append(@, [event |-> "tool_result", tool |-> tool,
                                        id |-> id, enabled |-> proc[a].enabled]),
                ![a].cls =
                    IF proc[a].enabled /\ tool \in {"write", "edit"}
                                      /\ path # NoPath
                    THEN [path |-> path,
                          repo |-> isTargetRepoPath(config[a], processCwd(a),
                                                    path)]
                    ELSE @]
          /\ workFiles' =
                IF tool \in {"write", "edit"} /\ path # NoPath
                      /\ StartsWith(AbsPath(a, path), agentDir(a) \o <<Sep>>)
                THEN [workFiles EXCEPT ![a] = @ \cup {AbsPath(a, path)}]
                ELSE workFiles
    /\ UNCHANGED <<config, workDir, env, gitignore, repos, patchWrites>>

\* /shadow-git enable, at any point of a handler's suspension
Enable(a, FS) ==
    /\ \E F \in FS : Dispatch(a, setEnabled(Work(a, F), TRUE), "enable")
    /\ UNCHANGED <<obs, config, workDir, workFiles, env, gitignore, repos,
                   patchWrites>>

\* /shadow-git disable
Disable(a, FS) ==
    /\ \E F \in FS : Dispatch(a, setEnabled(Work(a, F), FALSE), "disable")
    /\ UNCHANGED <<obs, config, workDir, workFiles, env, gitignore, repos,
                   patchWrites>>

\* /shadow-git args, at any point of a handler's suspension, that of an
\* earlier history command included
Command(a, FS, Args) ==
    /\ \E F \in FS, args \in Args :
          /\ Dispatch(a, shadowGitCommand(Work(a, F), config[a],
                                          subcommand(args)),
                      subcommand(args))
    /\ UNCHANGED <<obs, config, workDir, workFiles, env, gitignore, repos,
                   patchWrites>>

\* a pending git log --oneline -20 completes
HistoryDone(a, FS, O) ==
    /\ proc[a].pendingLogs > 0
    /\ \E F \in FS, o \in O :
          Step(a, historyAfterLog(Work(a, F), o), NoEvent, o # "ok")
    /\ UNCHANGED <<obs, config, workDir, workFiles, env, gitignore, repos,
                   patchWrites, dispatched>>

\* the host emits a lifecycle event for which the process, not configured,
\* has registered no handler (lines 86-90)
Unregistered(a, Events) ==
    /\ config[a] = None
    /\ \E ev \in Events : Dispatch(a, Work(a, {}), ev)
    /\ UNCHANGED <<obs, config, workDir, workFiles, env, gitignore, repos,
                   patchWrites>>

\* the await of initAgentRepo (line 351) hands control back to the handler
InitReturn(a, FS) ==
    /\ proc[a].pc = "init_done"
    /\ \E F \in FS : Step(a, sessionStartRest(Work(a, F)), NoEvent, FALSE)
    /\ UNCHANGED <<obs, config, workDir, workFiles, env, gitignore, repos,
                   patchWrites, dispatched>>

\* PI_SHADOW_GIT_DISABLED is set or unset in the process environment while
\* the process runs (line 341: "env may have changed"), between events or
\* while a handler is suspended
KillswitchChange(a) ==
    /\ dispatched < budget
    /\ dispatched' = dispatched + 1
    /\ env' = [env EXCEPT ![a] = ~@]
    /\ UNCHANGED <<config, workDir, workFiles, proc, auditFile, gitignore,
                   repos, patchWrites, obs, hist, budget, faults>>

\* git init completes
InitDone(a, FS, O) ==
    /\ proc[a].pc = "init"
    /\ \E F \in FS, o \in O :
          LET w == initAfterInit(Work(a, F), o)
          IN  /\ Step(a, w, NoEvent, o # "ok")
              /\ repos' = IF o = "ok" THEN GitInit(repos, ExecCwd(a)) ELSE repos
              /\ gitignore' = [gitignore EXCEPT ![a] = @ \/ w.pc = "init_add"]
    /\ UNCHANGED <<obs, config, workDir, workFiles, env, patchWrites, dispatched>>

\* git add .gitignore completes
InitAddDone(a, FS, O) ==
    /\ proc[a].pc = "init_add"
    /\ \E F \in FS, o \in O :
          /\ Step(a, initAfterAdd(Work(a, F), o), NoEvent, o # "ok")
          /\ repos' = IF o = "ok"
                      THEN GitAdd(repos, ExecCwd(a),
                                  {gitignorePath(a)} \cap Present(a))
                      ELSE repos
    /\ UNCHANGED <<obs, config, workDir, workFiles, env, gitignore,
                   patchWrites, dispatched>>

\* git commit -m "agent initialized" completes
InitCommitDone(a, FS, O) ==
    /\ proc[a].pc = "init_commit"
    /\ \E F \in FS, o \in O :
          /\ Step(a, initAfterCommit(Work(a, F), o), NoEvent, o # "ok")
          /\ repos' = IF o = "ok"
                      THEN GitCommit(repos, ExecCwd(a), InitialMessage)
                      ELSE repos
    /\ UNCHANGED <<obs, config, workDir, workFiles, env, gitignore,
                   patchWrites, dispatched>>

\* git add -A completes
AddDone(a, FS, O) ==
    /\ proc[a].pc = "add"
    /\ \E F \in FS, o \in O :
          /\ Step(a, commitAfterAdd(Work(a, F), o), NoEvent, o # "ok")
          /\ repos' = IF o = "ok"
                      THEN GitAdd(repos, ExecCwd(a), Present(a) \ Ignored(a))
                      ELSE repos
    /\ UNCHANGED <<obs, config, workDir, workFiles, env, gitignore,
                   patchWrites, dispatched>>

\* git commit -m fullMessage --allow-empty completes
CommitDone(a, FS, O) ==
    /\ proc[a].pc = "commit"
    /\ \E F \in FS, o \in O :
          /\ Step(a, commitAfterCommit(Work(a, F), o), NoEvent, o # "ok")
          /\ repos' = IF o = "ok"
                      THEN GitCommit(repos, ExecCwd(a),
                                     fullMessage(config[a], proc[a].message))
                      ELSE repos
    /\ UNCHANGED <<obs, config, workDir, workFiles, env, gitignore,
                   patchWrites, dispatched>>

\* git diff HEAD -- filePath completes; "empty" is exit code 0 without output
DiffDone(a, FS, O) ==
    /\ proc[a].pc = "diff"
    /\ \E F \in FS, o \in O \cup {"empty"} :
          LET w == captureAfterDiff(Work(a, F), o)
          IN  /\ Step(a, w, NoEvent, o \in {"nonzero", "throw"})
              /\ patchWrites' =
                    IF w.stats.patchesCaptured # proc[a].stats.patchesCaptured
                    THEN patchWrites \cup {<<a, proc[a].patchFile>>}
                    ELSE patchWrites
              /\ obs' = [obs EXCEPT
                    ![a].diff = o,
                    ![a].captures =
                        IF w.stats.patchesCaptured # proc[a].stats.patchesCaptured
                        THEN @ \cup {[repo |-> obs[a].cls.repo,
                                      path |-> proc[a].patchFile]}
                        ELSE @]
    /\ UNCHANGED <<config, workDir, workFiles, env, gitignore, repos,
                   dispatched>>

\* ---------------------------------------------------------- specifications
\* Spec: one process, every event, command, input and failure.
Active == {"a1"}
AnyFs == SUBSET FsOps
Turns == 0..MaxTurn

Next ==
    \E a \in Active :
        \/ SessionStart(a, AnyFs)
        \/ SessionShutdown(a, AnyFs)
        \/ AgentEnd(a, AnyFs)
        \/ TurnStart(a, AnyFs, Turns)
        \/ TurnEnd(a, AnyFs, Turns, ToolResultCounts)
        \/ ToolCall(a, AnyFs, ToolNames, ToolCallIds)
        \/ ToolResult(a, AnyFs, ToolNames, ToolCallIds, FilePaths)
        \/ Enable(a, AnyFs)
        \/ Disable(a, AnyFs)
        \/ KillswitchChange(a)
        \/ InitDone(a, AnyFs, ExecOutcomes)
        \/ InitAddDone(a, AnyFs, ExecOutcomes)
        \/ InitCommitDone(a, AnyFs, ExecOutcomes)
        \/ InitReturn(a, AnyFs)
        \/ AddDone(a, AnyFs, ExecOutcomes)
        \/ CommitDone(a, AnyFs, ExecOutcomes)
        \/ DiffDone(a, AnyFs, ExecOutcomes)

\* a process that takes no step
Passive(a) ==
    /\ config[a] = [targetRepos |-> <<>>, targetBranch |-> None]
    /\ ~env[a]
    /\ workDir[a] = agentDir(a)
    /\ workFiles[a] = {}

\* the process is started in its agent directory, which holds nothing yet,
\* or outside the workspace when no target repository is configured, or in
\* a target repository when some are
Init1 ==
    /\ InitOf(Configs)
    /\ budget = MaxEvents
    /\ \A a \in Agents \ Active : Passive(a)
    /\ \A a \in Active :
          /\ workFiles[a] = {}
          /\ \/ workDir[a] = agentDir(a)
             \/ workDir[a] = Outside /\ config[a].targetRepos = <<>>
             \/ workDir[a] = TargetA /\ config[a].targetRepos # <<>>

Spec == Init1 /\ [][Next]_vars

\* SpecMulti: every process, under every interleaving of their handlers; the
\* host passes one turn index, one tool and one external path.
NextMulti ==
    \E a \in Agents :
        \/ SessionStart(a, AnyFs)
        \/ TurnStart(a, AnyFs, {1})
        \/ TurnEnd(a, AnyFs, {1}, {0})
        \/ ToolCall(a, AnyFs, {"write"}, ToolCallIds)
        \/ ToolResult(a, AnyFs, {"write"}, ToolCallIds, {FileInA})
        \/ InitDone(a, AnyFs, ExecOutcomes)
        \/ InitAddDone(a, AnyFs, ExecOutcomes)
        \/ InitCommitDone(a, AnyFs, ExecOutcomes)
        \/ InitReturn(a, AnyFs)
        \/ AddDone(a, AnyFs, ExecOutcomes)
        \/ CommitDone(a, AnyFs, ExecOutcomes)
        \/ DiffDone(a, AnyFs, ExecOutcomes)

SpecMulti == Init /\ [][NextMulti]_vars

\* SpecLive: the processes of SpecMulti, where every subprocess call awaited
\* by a handler of an Active process eventually completes, successfully or
\* not; the other process is under no such assumption and may stop anywhere.
Completes(a) ==
    \/ InitDone(a, AnyFs, ExecOutcomes)
    \/ InitAddDone(a, AnyFs, ExecOutcomes)
    \/ InitCommitDone(a, AnyFs, ExecOutcomes)
    \/ InitReturn(a, AnyFs)
    \/ AddDone(a, AnyFs, ExecOutcomes)
    \/ CommitDone(a, AnyFs, ExecOutcomes)
    \/ DiffDone(a, AnyFs, ExecOutcomes)

SpecLive ==
    /\ Init
    /\ [][NextMulti]_vars
    /\ \A a \in Active : WF_vars(Completes(a))

\* SpecTools: one process and its tool events, with two tool call ids.
PairIds == {"c1", "c2"}

NextTools ==
    \E a \in Active :
        \/ TurnStart(a, AnyFs, Turns)
        \/ ToolCall(a, AnyFs, ToolNames, PairIds)
        \/ ToolResult(a, AnyFs, ToolNames, PairIds, FilePaths)
        \/ Enable(a, AnyFs)
        \/ Disable(a, AnyFs)
        \/ DiffDone(a, AnyFs, ExecOutcomes)

SpecTools == Init1 /\ [][NextTools]_vars

\* SpecClassify: one process classifying every path under every
\* configuration of target repositories.
NextClassify ==
    \E a \in Active :
        \/ ToolCall(a, AnyFs, {"write"}, ToolCallIds)
        \/ ToolResult(a, AnyFs, {"write", "edit"}, ToolCallIds, AllPaths)
        \/ DiffDone(a, AnyFs, ExecOutcomes)

InitClassify ==
    /\ InitOf(ClassifyConfigs)
    /\ budget = MaxEvents
    /\ \A a \in Agents \ Active : Passive(a)
    /\ \A a \in Active : workFiles[a] = {}

SpecClassify == InitClassify /\ [][NextClassify]_vars

\* SpecRun: the runs of one process that starts enabled, without target
\* repositories, in which no operation fails: up to MaxRunEvents events.
NoFs == {{}}

NextRun ==
    \E a \in Active :
        \/ SessionStart(a, NoFs)
        \/ TurnEnd(a, NoFs, {0}, {0})
        \/ ToolCall(a, NoFs, {"write"}, PairIds)
        \/ ToolResult(a, NoFs, {"write"}, PairIds, {FileInA})
        \/ InitDone(a, NoFs, {"ok"})
        \/ InitAddDone(a, NoFs, {"ok"})
        \/ InitCommitDone(a, NoFs, {"ok"})
        \/ InitReturn(a, NoFs)
        \/ AddDone(a, NoFs, {"ok"})
        \/ CommitDone(a, NoFs, {"ok"})
        \/ DiffDone(a, NoFs, {"ok"})

InitRun ==
    /\ InitOf({[targetRepos |-> <<>>, targetBranch |-> None]})
    /\ budget = MaxRunEvents
    /\ \A a \in Agents : ~env[a] /\ workDir[a] = agentDir(a) /\ workFiles[a] = {}

SpecRun == InitRun /\ [][NextRun]_vars

\* SpecCommands: one configured process and the operator's commands.
NextCommands ==
    \E a \in Active :
        \/ Command(a, AnyFs, ArgLists)
        \/ HistoryDone(a, AnyFs, ExecOutcomes)

SpecCommands == Init1 /\ [][NextCommands]_vars

\* SpecUnconfigured: PI_WORKSPACE_ROOT or PI_AGENT_NAME is missing; the host
\* emits every lifecycle event and the operator runs every command.
HostEvents ==
    {"session_start", "session_shutdown", "agent_end", "turn_start", "turn_end",
     "tool_call", "tool_result"}

NextUnconfigured ==
    \E a \in Active :
        \/ Unregistered(a, HostEvents)
        \/ Command(a, AnyFs, ArgLists)

InitUnconfigured ==
    /\ InitOf({None})
    /\ budget = MaxEvents
    /\ \A a \in Agents : workDir[a] = agentDir(a) /\ workFiles[a] = {}

SpecUnconfigured == InitUnconfigured /\ [][NextUnconfigured]_vars

\* ================================================================== claims
Range(s) == {s[i] : i \in 1..Len(s)}
Count(s, x) == Cardinality({i \in 1..Len(s) : s[i] = x})
Last(s) == s[Len(s)]
Commits(a) == repos[agentDir(a)].commits

\* a version-control command that writes is in flight for process a
InFlight(a) == proc[a].pc \in {"init", "init_add", "init_commit", "add", "commit"}

\* the repository that command operates on
TargetRepo(a) ==
    IF proc[a].pc = "init" THEN ExecCwd(a) ELSE Discover(repos, ExecCwd(a))

\* C1: under every interleaving of the handlers of processes with distinct
\* agent names, a process's init, add and commit commands operate on its own
\* agents/{name} repository, and no two processes have a command in flight on
\* the same repository (no lock contention).
C1_OwnRepositoryOnly ==
    \A a \in Agents :
        InFlight(a) =>
            /\ TargetRepo(a) = agentDir(a)
            /\ \A b \in Agents \ {a} : InFlight(b) => TargetRepo(b) # TargetRepo(a)

C1_Witness ==
    /\ \A a \in Agents : InFlight(a)
    /\ \E a \in Agents : proc[a].pc = "commit"

\* the preconditions of C2 for process a: started enabled, one session_start
\* and it came first, never disabled, no subprocess call failed, handler done
C2_Run(a) ==
    /\ ~hist[a].off
    /\ Idle(a)
    /\ hist[a].trace # <<>>
    /\ hist[a].trace[1] = "session_start"
    /\ Count(hist[a].trace, "session_start") = 1
    /\ "disable" \notin Range(hist[a].trace)
    /\ "exec" \notin hist[a].failed

\* C2 as stated: after session_start and T turn_end events, with every
\* subprocess call succeeding and the engine enabled, the repository holds
\* T + 2 commits, whatever the number of tool events.
C2_Original ==
    \A a \in Agents :
        C2_Run(a) => Len(Commits(a)) = Count(hist[a].trace, "turn_end") + 2

\* C2 amended: the same, provided the write of the exclusion file succeeded too.
C2_TurnsPlusTwo ==
    \A a \in Agents :
        (C2_Run(a) /\ "gitignore" \notin hist[a].failed)
            => Len(Commits(a)) = Count(hist[a].trace, "turn_end") + 2

C2_Witness ==
    \E a \in Agents :
        /\ C2_Run(a)
        /\ "gitignore" \notin hist[a].failed
        /\ Count(hist[a].trace, "turn_end") = 1
        /\ Count(hist[a].trace, "tool_call") = 1
        /\ Len(Commits(a)) = 3

\* what a checkpoint commit changes
CommitState(a) ==
    <<Len(Commits(a)), proc[a].stats.commits, proc[a].stats.commitErrors>>

\* C3: a step changes a repository's commit count, the commit counter or the
\* commit-failure counter of a process only while its session_start or
\* turn_end handler is running; tool_call, tool_result, agent_end and
\* session_shutdown leave all three unchanged.
C3_CommitsOnlyAtBoundaries ==
    [][\A a \in Agents :
          CommitState(a)' # CommitState(a)
              => proc[a].handler \in {"session_start", "turn_end"}]_vars

C3_Witness ==
    \E a \in Agents :
        /\ Idle(a)
        /\ proc[a].agentRepoInitialized
        /\ Len(hist[a].trace) = 3
        /\ hist[a].trace[2] = "tool_call"
        /\ hist[a].trace[3] = "tool_result"
        /\ proc[a].stats.patchesCaptured = 1
        /\ Len(Commits(a)) = 2

LifecycleEvents ==
    {"session_start", "session_shutdown", "agent_end", "turn_start", "turn_end",
     "tool_call", "tool_result"}

\* the most recent enable or disable command of a trace ("" when there is none)
LastCommand(tr) ==
    LET idx == {i \in 1..Len(tr) : tr[i] \in {"enable", "disable"}}
    IN  IF idx = {} THEN ""
        ELSE tr[CHOOSE i \in idx : \A j \in idx : j <= i]

\* this step dispatches a lifecycle event to process a
DispatchesEvent(a) ==
    /\ Len(hist'[a].trace) = Len(hist[a].trace) + 1
    /\ Last(hist'[a].trace) \in LifecycleEvents

\* C4: a lifecycle event dispatched after a disable command and before the
\* next enable command appends no audit entry, creates no commit, writes no
\* patch file, and its handler has returned at once.
C4_DisabledIsSilent ==
    [][\A a \in Agents :
          (LastCommand(hist[a].trace) = "disable" /\ DispatchesEvent(a))
              => /\ auditFile'[a] = auditFile[a]
                 /\ repos' = repos
                 /\ patchWrites' = patchWrites
                 /\ proc'[a].pc = "idle"]_vars

C4_Witness ==
    \E a \in Agents :
        /\ hist[a].trace = <<"session_start", "disable", "turn_end">>
        /\ proc[a].agentRepoInitialized
        /\ Len(Commits(a)) = 2
        /\ auditFile[a] # <<>>

IsTurnCommit(c, a) == StartsWith(c.message, <<"[", a, ":turn-">>)

\* C5 as stated: once an enable command has run, a turn_end handled while
\* the engine is enabled and no operation fails leaves a turn_end entry as
\* the last audit line and a turn commit as the last commit of the
\* repository, whether the process started enabled or with the kill-switch.
C5_EnableResumes ==
    \A a \in Agents :
        ( /\ Idle(a)
          /\ proc[a].enabled
          /\ hist[a].failed = {}
          /\ Len(hist[a].trace) >= 3
          /\ hist[a].trace[1] = "session_start"
          /\ "enable" \in Range(hist[a].trace)
          /\ Last(hist[a].trace) = "turn_end" )
        => /\ auditFile[a] # <<>>
           /\ Last(auditFile[a]).event = "turn_end"
           /\ Commits(a) # <<>>
           /\ IsTurnCommit(Last(Commits(a)), a)

\* C6 as stated: no lifecycle handler ends with an unhandled failure.
C6_HandlersNeverThrow == \A a \in Agents : ~hist[a].threw

\* this step completes, with a failure, the git add or git commit of a
\* turn_end handler
TurnCommitFails(a) ==
    /\ proc[a].handler = "turn_end"
    /\ proc[a].pc \in {"add", "commit"}
    /\ hist'[a].nexec = hist[a].nexec + 1

CommitErrorEntry(a) ==
    [event |-> "commit_error", agent |-> a, turn |-> proc[a].currentTurn,
     data |-> [message |-> proc[a].message, error |-> "err"]]

C7_Counted(a) ==
    /\ proc'[a].stats.commitErrors = proc[a].stats.commitErrors + 1
    /\ proc'[a].stats.commits = proc[a].stats.commits
    /\ repos' = repos
    /\ proc'[a].pc = "idle"
    /\ hist'[a].threw = hist[a].threw

\* C7 as stated: a failed turn-boundary commit adds one to the failure
\* counter, leaves the commit counter, appends exactly one commit_error entry
\* and the handler returns without retrying.
C7_Original ==
    [][\A a \in Agents :
          TurnCommitFails(a)
              => /\ C7_Counted(a)
                 /\ auditFile'[a] = Append(auditFile[a], CommitErrorEntry(a))]_vars

\* C7 amended: the same, the commit_error entry being appended exactly when
\* the engine is still enabled at that moment and the append succeeds.
C7_CommitFailure ==
    [][\A a \in Agents :
          TurnCommitFails(a)
              => /\ C7_Counted(a)
                 /\ auditFile'[a] =
                       IF proc[a].enabled /\ hist'[a].nfs = hist[a].nfs
                       THEN Append(auditFile[a], CommitErrorEntry(a))
                       ELSE auditFile[a]]_vars

C7_Witness ==
    \E a \in Agents :
        /\ Idle(a)
        /\ hist[a].trace # <<>>
        /\ Last(hist[a].trace) = "turn_end"
        /\ proc[a].stats.commitErrors = 1
        /\ proc[a].stats.commits = 1
        /\ auditFile[a] # <<>>
        /\ Last(auditFile[a]).event = "commit_error"

\* C8 as stated: audit.jsonl is never in the index of a repository, and the
\* exclusion file is in place whenever git add -A is in flight.
C8_AuditNeverTracked ==
    \A a \in Agents :
        /\ \A d \in Dirs : auditFilePath(a) \notin repos[d].index
        /\ proc[a].pc = "add" => gitignore[a]

\* C9: init, add and commit run with agents/{name} as working directory, and
\* the workspace-root repository receives no commit and no staged file.
C9_RootNeverWritten ==
    /\ repos[workspaceRoot].commits = <<>>
    /\ repos[workspaceRoot].index = {}
    /\ \A a \in Agents : InFlight(a) => ExecCwd(a) = agentDir(a)

C9_Witness ==
    \E a \in Agents :
        /\ Idle(a)
        /\ Len(Commits(a)) = 3
        /\ IsTurnCommit(Last(Commits(a)), a)

\* C10 as stated: two processes never write the same patch file path.
C10_PatchPathsDistinct ==
    \A x \in patchWrites, y \in patchWrites : x[1] # y[1] => x[2] # y[2]

\* ------------------------------------------------------------ patch capture
\* this step completes the git diff of process a's tool_result with outcome o
DiffStep(a, o) ==
    /\ proc[a].pc = "diff"
    /\ proc'[a].pc = "idle"
    /\ obs'[a].diff = o

\* n < 1000 written with three digits
ThreeDigits(n) ==
    <<DigitChars[((n \div 100) % 10) + 1], DigitChars[((n \div 10) % 10) + 1],
      DigitChars[(n % 10) + 1]>>

\* n < 10 written in decimal
OneDigit(n) == <<DigitChars[n + 1]>>

\* turn-{turn:03d}-{tool}-{seq}.patch for the tool result in flight
ExpectedPatchName(a) ==
    <<"turn-">> \o ThreeDigits(proc[a].currentTurn)
        \o <<"-", Last(obs[a].tools).tool, "-">>
        \o OneDigit(proc[a].toolCallCount) \o <<".patch">>

\* path is a file of that name below the patch directory
IsExpectedPatch(a, path) ==
    LET name == ExpectedPatchName(a)
        n == Len(path) - Len(name)
    IN  /\ n > Len(patchDir) + 1
        /\ SubSeq(path, n + 1, Len(path)) = name
        /\ path[n] = Sep
        /\ SubSeq(path, 1, Len(patchDir) + 1) = patchDir \o <<Sep>>

\* the step writes one patch file of the expected name, counts it and
\* appends the patch_captured entry that references it
Captured(a) ==
    \E path \in {x[2] : x \in patchWrites'} :
        /\ IsExpectedPatch(a, path)
        /\ patchWrites' = patchWrites \cup {<<a, path>>}
        /\ proc'[a].stats.patchesCaptured = proc[a].stats.patchesCaptured + 1
        /\ auditFile'[a] =
              Append(auditFile[a],
                     [event |-> "patch_captured", agent |-> a,
                      turn |-> proc[a].currentTurn,
                      data |-> [file |-> obs[a].cls.path, patch |-> path]])

\* C11 as stated: a write or edit tool_result received while enabled, on a
\* path classified as external and whose diff against HEAD is non-empty,
\* writes one patch file turn-NNN-tool-seq.patch under the patch directory,
\* adds one to the patches-captured counter and appends one patch_captured
\* entry that references the file.
C11_Original ==
    [][\A a \in Agents : DiffStep(a, "ok") => Captured(a)]_vars

\* C11 amended: the same, provided the engine is still enabled when the diff
\* returns and the write of the patch file and the audit append succeed.
C11_PatchCaptured ==
    [][\A a \in Agents :
          (DiffStep(a, "ok") /\ proc[a].enabled /\ hist'[a].nfs = hist[a].nfs)
              => Captured(a)]_vars

C11_Witness ==
    \E a \in Agents :
        /\ Idle(a)
        /\ obs[a].diff = "ok"
        /\ proc[a].currentTurn = 1
        /\ proc[a].toolCallCount = 1
        /\ proc[a].stats.patchesCaptured = 1
        /\ auditFile[a] # <<>>
        /\ Last(auditFile[a]).event = "patch_captured"
        /\ patchWrites # {}

\* C12: a write or edit tool_result on an external path whose diff against
\* HEAD is empty writes no patch file, leaves the patches-captured counter
\* unchanged and appends no entry (so no patch_captured entry).
C12_EmptyDiffNoPatch ==
    [][\A a \in Agents :
          DiffStep(a, "empty")
              => /\ patchWrites' = patchWrites
                 /\ proc'[a].stats.patchesCaptured = proc[a].stats.patchesCaptured
                 /\ auditFile'[a] = auditFile[a]]_vars

C12_Witness ==
    \E a \in Agents :
        /\ Idle(a)
        /\ obs[a].diff = "empty"
        /\ obs[a].cls # None
        /\ obs[a].cls.repo # None
        /\ proc[a].enabled
        /\ proc[a].stats.patchesCaptured = 0
        /\ patchWrites = {}
        /\ auditFile[a] # <<>>
        /\ Last(auditFile[a]).event = "tool_result"

\* C13 as stated: when the git diff of a patch capture throws or exits with
\* a non-zero code (engine enabled, audit append succeeding), a patch_error
\* entry for the file is appended and the handler returns normally.
C13_PatchErrorRecorded ==
    [][\A a \in Agents :
          ( /\ DiffStep(a, "throw") \/ DiffStep(a, "nonzero")
            /\ proc[a].enabled
            /\ hist'[a].nfs = hist[a].nfs )
          => /\ auditFile'[a] =
                   Append(auditFile[a],
                          [event |-> "patch_error", agent |-> a,
                           turn |-> proc[a].currentTurn,
                           data |-> [file |-> obs[a].cls.path, error |-> "err"]])
             /\ hist'[a].threw = hist[a].threw]_vars

\* ------------------------------------------------------------------ commands
\* this step dispatches the command cmd to process a
CommandStep(a, cmd) ==
    /\ Len(hist'[a].trace) = Len(hist[a].trace) + 1
    /\ Last(hist'[a].trace) = cmd

\* C14 as stated: a disable command issued while the engine is enabled (the
\* audit append succeeding) appends a `disabled` entry, and while the last
\* command is that disable the last line of the audit file is that entry.
C14_DisableRecorded ==
    [][\A a \in Agents :
          /\ (CommandStep(a, "disable") /\ proc[a].enabled
                  /\ hist'[a].nfs = hist[a].nfs)
                => auditFile'[a] =
                      Append(auditFile[a],
                             [event |-> "disabled", agent |-> a,
                              turn |-> proc[a].currentTurn, data |-> <<>>])
          /\ (LastCommand(hist[a].trace) = "disable"
                  /\ LastCommand(hist'[a].trace) = "disable")
                => auditFile'[a] = auditFile[a]]_vars

\* ------------------------------------------------------------- tool events
IsToolEntry(e) == e.event \in {"tool_call", "tool_result"}
WasEnabled(t) == t.enabled

\* the tool_call and tool_result entries of a's audit file, in file order
ToolEntries(a) ==
    LET sel == SelectSeq(auditFile[a], IsToolEntry)
    IN  [i \in 1..Len(sel) |-> <<sel[i].event, sel[i].data.toolCallId>>]

\* the tool events dispatched to a while it was enabled, in dispatch order
ToolEvents(a) ==
    LET sel == SelectSeq(obs[a].tools, WasEnabled)
    IN  [i \in 1..Len(sel) |-> <<sel[i].event, sel[i].id>>]

\* every call/result pair of one toolCallId dispatched while enabled is in
\* the audit file, call before result
PairsInOrder(a) ==
    \A i \in 1..Len(ToolEvents(a)), j \in 1..Len(ToolEvents(a)) :
        ( /\ i < j
          /\ ToolEvents(a)[i][1] = "tool_call"
          /\ ToolEvents(a)[j][1] = "tool_result"
          /\ ToolEvents(a)[i][2] = ToolEvents(a)[j][2] )
        => \E p \in 1..Len(ToolEntries(a)), q \in 1..Len(ToolEntries(a)) :
              /\ p < q
              /\ ToolEntries(a)[p] = ToolEvents(a)[i]
              /\ ToolEntries(a)[q] = ToolEvents(a)[j]

\* C15 as stated: for every toolCallId whose tool_call and tool_result are
\* dispatched, call first, while the engine is enabled, both entries are in
\* the agent's audit file and the call entry precedes the result entry.
C15_Original == \A a \in Agents : PairsInOrder(a)

\* C15 amended: the same provided no append to the audit file has failed;
\* the tool entries of the file are then exactly the tool events dispatched
\* while enabled, in dispatch order.
C15_CallBeforeResult ==
    \A a \in Agents :
        "append" \notin hist[a].failed
            => /\ PairsInOrder(a)
               /\ ToolEntries(a) = ToolEvents(a)

C15_Witness ==
    \E a \in Agents :
        /\ "append" \notin hist[a].failed
        /\ ToolEvents(a) = << <<"tool_call", "c1">>, <<"tool_call", "c2">>,
                              <<"tool_result", "c1">> >>
        /\ ToolEntries(a) = ToolEvents(a)

\* C16: whether the engine is enabled or disabled, the tool-call counters
\* equal the number of tool_call events dispatched and the turn counter the
\* number of turn_start events dispatched (each event adds exactly one).
C16_CountersAreGroundTruth ==
    \A a \in Agents :
        /\ proc[a].stats.toolCalls = Count(hist[a].trace, "tool_call")
        /\ proc[a].toolCallCount = Count(hist[a].trace, "tool_call")
        /\ proc[a].stats.turns = Count(hist[a].trace, "turn_start")

C16_Witness ==
    \E a \in Agents :
        /\ hist[a].trace = <<"disable", "tool_call", "turn_start">>
        /\ ~proc[a].enabled
        /\ proc[a].stats.toolCalls = 1
        /\ proc[a].stats.turns = 1
        /\ auditFile[a] = <<>>

\* ----------------------------------------------------------- initialization
InitPhase == {"init", "init_add", "init_commit"}

\* this step ends initAgentRepo of process a in its catch block
InitFails(a) ==
    /\ proc[a].pc \in InitPhase
    /\ proc'[a].pc \notin InitPhase
    /\ ~proc'[a].agentRepoInitialized

HasEntry(a, event) == \E i \in 1..Len(auditFile[a]) : auditFile[a][i].event = event

\* no commit is made and no counter changes
NoCommit(a) ==
    /\ proc'[a].stats = proc[a].stats
    /\ \A d \in Dirs : /\ repos'[d].commits = repos[d].commits
                        /\ repos'[d].index = repos[d].index

\* no commit is made or started and no counter changes
NoCommitAttempt(a) == proc'[a].pc = "idle" /\ NoCommit(a)

InitErrorEntries(a) ==
    << [event |-> "git_init_error", agent |-> a, turn |-> proc[a].currentTurn,
        data |-> [error |-> "err"]] >>

\* C17 as stated: when initAgentRepo fails during session_start a
\* git_init_error entry is appended (engine enabled, appends succeeding), the
\* session-start commit runs no command and changes no counter, the manager
\* stays not initialized for the rest of the process, and every turn_end
\* commit attempt of a not-initialized manager runs no command and changes
\* no counter.
C17_InitFailureIsFinal ==
    [][\A a \in Agents :
          /\ InitFails(a)
                => /\ (proc[a].enabled /\ "append" \notin hist'[a].failed)
                         => auditFile'[a] = auditFile[a] \o InitErrorEntries(a)
                   /\ NoCommit(a)
          /\ ( /\ proc[a].pc = "init_done" /\ proc'[a].pc # "init_done"
                /\ ~proc[a].agentRepoInitialized )
              => NoCommitAttempt(a)
          /\ HasEntry(a, "git_init_error") => ~proc'[a].agentRepoInitialized
          /\ (~proc[a].agentRepoInitialized /\ CommandStep(a, "turn_end"))
                => NoCommitAttempt(a)]_vars

InitialCommits(cs) ==
    Cardinality({i \in 1..Len(cs) : cs[i].message = InitialMessage})

\* C18: a session_start handled while enabled on an agent directory that
\* already holds a repository runs no git init, makes no 'agent initialized'
\* commit and leaves the manager initialized; git init is in flight only
\* while no repository exists, and no repository ever holds more than one
\* 'agent initialized' commit, whatever the number of session_start events.
C18_EnsureRepositoryIdempotent ==
    [][\A a \in Agents :
          /\ ( /\ CommandStep(a, "session_start")
                /\ proc[a].enabled /\ ~env[a]
                /\ repos[agentDir(a)].exists )
              => /\ proc'[a].pc \notin InitPhase
                 /\ proc'[a].agentRepoInitialized
                 /\ repos' = repos
          /\ proc'[a].pc = "init" => ~repos'[agentDir(a)].exists
          /\ \A d \in Dirs : InitialCommits(repos'[d].commits) <= 1]_vars

C18_Witness ==
    \E a \in Agents :
        /\ hist[a].trace = <<"session_start", "session_start">>
        /\ Idle(a)
        /\ proc[a].agentRepoInitialized
        /\ Len(Commits(a)) = 3
        /\ InitialCommits(Commits(a)) = 1
        /\ Commits(a)[1].message = InitialMessage

\* ----------------------------------------------------------- classification
\* directory containment: p is dir or a path below it
Contains(dir, p) ==
    \/ p = dir
    \/ /\ Len(p) > Len(dir)
       /\ SubSeq(p, 1, Len(dir)) = dir
       /\ p[Len(dir) + 1] = Sep

\* the absolute form of a path given to process a
AbsForm(a, p) == IF p[1] = Sep THEN p ELSE workDir[a] \o <<Sep>> \o p

\* process a has classified the path of a write or edit result
Classified(a) == obs[a].cls # None

\* C19 as stated: a path is classified as workspace-internal (no target, no
\* capture) exactly when its absolute form is the workspace root or lies
\* below it by directory containment; with no target repositories
\* configured every other path is given a target.
C19_InternalIsContainment ==
    \A a \in Agents :
        Classified(a) =>
            LET inside == Contains(workspaceRoot, AbsForm(a, obs[a].cls.path))
            IN  /\ inside => obs[a].cls.repo = None
                /\ (config[a].targetRepos = <<>> /\ ~inside)
                      => obs[a].cls.repo # None

\* C20 as stated: for a path outside the workspace root, the result is the
\* first configured repository that contains it; the unknown target when no
\* repository is configured; no target when repositories are configured and
\* none contains it.
C20_FirstContainingRepository ==
    \A a \in Agents :
        (Classified(a)
            /\ ~StartsWith(AbsForm(a, obs[a].cls.path), workspaceRoot))
        => LET abs == AbsForm(a, obs[a].cls.path)
               rs == config[a].targetRepos
               hits == {i \in 1..Len(rs) : Contains(rs[i], abs)}
           IN  IF rs = <<>> THEN obs[a].cls.repo = <<"unknown">>
               ELSE IF hits = {} THEN obs[a].cls.repo = None
               ELSE obs[a].cls.repo = rs[CHOOSE i \in hits : \A j \in hits : i <= j]

\* the subdirectory of the patch directory that holds the patch file path
Subdir(path) == path[Len(patchDir) + 2]

\* C21 as stated: patches of two different configured target repositories
\* are stored under different subdirectories of the patch directory.
C21_SubdirIdentifiesRepository ==
    \A a \in Agents :
        \A x \in obs[a].captures, y \in obs[a].captures :
            x.repo # y.repo => Subdir(x.path) # Subdir(y.path)

\* this step completes the git log of a history command of process a
HistoryStep(a) == proc'[a].pendingLogs = proc[a].pendingLogs - 1

\* C22 as stated: no operator command ends with an unhandled failure, also
\* when the git log behind `history` exits non-zero or throws.
C22_CommandsNeverThrow ==
    [][\A a \in Agents :
          (HistoryStep(a) \/ \E args \in ArgLists : CommandStep(a, subcommand(args)))
              => hist'[a].threw = hist[a].threw]_vars

\* the one audit append of the handler dispatched in this step has failed
AppendFailsIn(a, ev) ==
    /\ CommandStep(a, ev)
    /\ proc[a].enabled
    /\ hist'[a].nfs = hist[a].nfs + 1

\* C23: when the append of an audit entry fails the handler goes on and
\* returns normally: turn_end still issues its checkpoint commit, tool_call
\* and turn_start still update their counters, and nothing is thrown.
C23_AppendFailureSwallowed ==
    [][\A a \in Agents :
          /\ AppendFailsIn(a, "turn_end")
                => /\ auditFile'[a] = auditFile[a]
                   /\ hist'[a].threw = hist[a].threw
                   /\ proc[a].agentRepoInitialized => proc'[a].pc = "add"
          /\ AppendFailsIn(a, "tool_call")
                => /\ auditFile'[a] = auditFile[a]
                   /\ hist'[a].threw = hist[a].threw
                   /\ proc'[a].stats.toolCalls = proc[a].stats.toolCalls + 1
                   /\ proc'[a].pc = "idle"
          /\ AppendFailsIn(a, "turn_start")
                => /\ auditFile'[a] = auditFile[a]
                   /\ hist'[a].threw = hist[a].threw
                   /\ proc'[a].stats.turns = proc[a].stats.turns + 1
                   /\ proc'[a].pc = "idle"]_vars

C23_Witness ==
    \E a \in Agents :
        /\ hist[a].trace = <<"session_start", "turn_end">>
        /\ hist[a].failed = {"append"}
        /\ Idle(a)
        /\ ~HasEntry(a, "turn_end")
        /\ Len(Commits(a)) = 3
        /\ IsTurnCommit(Last(Commits(a)), a)
        /\ proc[a].stats.commits = 2
        /\ ~hist[a].threw

\* C24: a process whose workspace root or agent name is missing is a silent
\* no-op: whatever lifecycle events the host emits and whatever commands the
\* operator runs, no audit entry is appended, no repository is created or
\* committed to, no patch file is written and the state stays as it was.
C24_UnconfiguredIsNoOp ==
    \A a \in Agents :
        config[a] = None
            => /\ auditFile[a] = <<>>
               /\ proc[a] = InitProc(env[a])
               /\ repos[agentDir(a)] = NoRepo
               /\ repos[workspaceRoot].commits = <<>>
               /\ repos[workspaceRoot].index = {}
               /\ patchWrites = {}
               /\ ~hist[a].threw

C24_Witness ==
    \E a \in Agents :
        /\ config[a] = None
        /\ hist[a].trace = <<"enable", "session_start", "turn_end">>
        /\ auditFile[a] = <<>>
        /\ proc[a] = InitProc(env[a])

\* the number of entries of kind event in a's audit file
Entries(a, event) ==
    Cardinality({i \in 1..Len(auditFile[a]) : auditFile[a][i].event = event})

\* C25 as stated: at the end of a run whose audit file records at least 3
\* tool_call entries, the checkpoint repository holds fewer commits than
\* there are tool_call entries.
\* (tests/tdd/tdd-02-1: TOOL_CALLS >= 3 and COMMITS < TOOL_CALLS.) The commits
\* are the initial one, one per session_start and one per turn_end, so a run
\* of session_start, three tool calls and one turn_end ends with 3 of each.
C25_CommitsBelowToolCalls ==
    \A a \in Agents :
        (Idle(a) /\ Entries(a, "tool_call") >= 3)
            => Len(Commits(a)) < Entries(a, "tool_call")

\* the session-start and turn commits of a's repository
Checkpoints(cs) == Len(cs) - InitialCommits(cs)

\* C26 as stated: once a disable command has completed, and until the next
\* enable command, no checkpoint commit is created and no audit entry is
\* appended, also when the command arrived while a session_start or
\* turn_end handler was suspended on a version-control subprocess call.
C26_DisableStopsInFlight ==
    [][\A a \in Agents :
          (LastCommand(hist[a].trace) = "disable"
              /\ LastCommand(hist'[a].trace) = "disable")
          => /\ Checkpoints(Commits(a)') = Checkpoints(Commits(a))
             /\ auditFile'[a] = auditFile[a]]_vars

\* the host's protocol: every tool_result follows the tool_call of its
\* toolCallId, and a toolCallId is called once and answered once
ToolProtocol(a) ==
    LET ts == obs[a].tools
    IN  /\ \A i \in 1..Len(ts), j \in 1..Len(ts) :
              (ts[i].event = ts[j].event /\ ts[i].id = ts[j].id) => i = j
        /\ \A j \in 1..Len(ts) :
              ts[j].event = "tool_result"
                  => \E i \in 1..(j - 1) :
                        ts[i].event = "tool_call" /\ ts[i].id = ts[j].id

PatchFiles(a) == {x \in patchWrites : x[1] = a}

\* C27 as stated: within one process every successful capture writes a path
\* no earlier capture used, for every ordering of tool_call and tool_result
\* events the host can produce (several tool calls outstanding included), so
\* the number of patch files written equals the patches-captured counter.
C27_PatchPerCapture ==
    \A a \in Agents :
        ToolProtocol(a)
            => Cardinality(PatchFiles(a)) = proc[a].stats.patchesCaptured

\* C28 as stated: whenever initAgentRepo has recorded a git_init entry, the
\* repository it created holds the 'agent initialized' commit as its first
\* commit, with the exclusion file tracked in it.
C28_GitInitMeansInitialized ==
    \A a \in Agents :
        HasEntry(a, "git_init")
            => /\ Commits(a) # <<>>
               /\ Commits(a)[1].message = InitialMessage
               /\ gitignorePath(a) \in Commits(a)[1].files

\* C29: session_start re-reads the kill-switch. If it is set the flag becomes
\* disabled, also after a runtime enable, and the handler initializes no
\* repository, appends no entry and creates no commit; if it is not set the
\* flag is left as it was, so a runtime-disabled engine stays disabled.
C29_KillswitchRecheck ==
    [][\A a \in Agents :
          CommandStep(a, "session_start")
              => IF env[a]
                 THEN /\ ~proc'[a].enabled
                      /\ auditFile'[a] = auditFile[a]
                      /\ repos' = repos
                      /\ proc'[a].pc = "idle"
                      /\ proc'[a].agentRepoInitialized
                            = proc[a].agentRepoInitialized
                 ELSE proc'[a].enabled = proc[a].enabled]_vars

C29_Witness ==
    \E a \in Agents :
        /\ env[a]
        /\ hist[a].trace = <<"enable", "session_start">>
        /\ ~proc[a].enabled
        /\ Len(auditFile[a]) = 1
        /\ auditFile[a][1].event = "enabled"
        /\ ~repos[agentDir(a)].exists

\* this step ends a commit attempt of process a that had reached git
AttemptEnds(a) == proc[a].pc \in {"add", "commit"} /\ proc'[a].pc = "idle"

\* C30: a commit attempt that reaches version control adds one to exactly
\* one of the commit counter (a commit was created) and the commit-failure
\* counter (none was); the commit counter always equals the number of
\* session-start and turn commits in the repository; a turn_end whose attempt
\* is skipped (engine disabled or repository not initialized) changes neither.
C30_CommitCounters ==
    [][\A a \in Agents :
          /\ AttemptEnds(a)
                => LET created == Checkpoints(Commits(a)') - Checkpoints(Commits(a))
                   IN  /\ created \in {0, 1}
                       /\ proc'[a].stats.commits = proc[a].stats.commits + created
                       /\ proc'[a].stats.commitErrors
                             = proc[a].stats.commitErrors + (1 - created)
          /\ proc'[a].stats.commits = Checkpoints(Commits(a)')
          /\ ( /\ CommandStep(a, "turn_end")
                /\ (~proc[a].enabled \/ ~proc[a].agentRepoInitialized) )
              => /\ proc'[a].stats = proc[a].stats
                 /\ proc'[a].pc = "idle"
                 /\ repos' = repos]_vars

C30_Witness ==
    \E a \in Agents :
        /\ Idle(a)
        /\ hist[a].trace = <<"session_start", "turn_end", "turn_end">>
        /\ proc[a].stats.commits = 2
        /\ proc[a].stats.commitErrors = 1
        /\ Checkpoints(Commits(a)) = 2

\* ------------------------------------------------------- counters and entries
\* process a started enabled and has not been disabled since, by a command
\* or by the kill-switch
EnabledThroughout(a) == ~hist[a].off

\* C31: the number of tool_call entries in the audit file is at most the
\* tool-call counter and the number of turn_start entries at most the turn
\* counter, with equality when the engine was enabled throughout and no
\* audit append failed.
C31_EntriesBoundedByCounters ==
    \A a \in Agents :
        /\ Entries(a, "tool_call") <= proc[a].stats.toolCalls
        /\ Entries(a, "turn_start") <= proc[a].stats.turns
        /\ (EnabledThroughout(a) /\ "append" \notin hist[a].failed)
              => /\ Entries(a, "tool_call") = proc[a].stats.toolCalls
                 /\ Entries(a, "turn_start") = proc[a].stats.turns

C31_Witness ==
    \E a \in Agents :
        /\ EnabledThroughout(a)
        /\ hist[a].failed = {}
        /\ hist[a].trace = <<"turn_start", "tool_call", "tool_call">>
        /\ Entries(a, "tool_call") = 2
        /\ Entries(a, "turn_start") = 1
        /\ proc[a].stats.toolCalls = 2
        /\ proc[a].stats.turns = 1

\* the entries a step appends to a's audit file
Appended(a) == SubSeq(auditFile'[a], Len(auditFile[a]) + 1, Len(auditFile'[a]))

\* C32: the turn field of every audit entry is the turnIndex of the most
\* recent turn_start event (0 before any), whether or not the engine was
\* enabled when that event was dispatched; a turn_start or turn_end entry
\* carries the turnIndex of its own event.
C32_TurnField ==
    [][\A a \in Agents :
          \A i \in 1..Len(Appended(a)) :
              LET e == Appended(a)[i]
              IN  IF e.event \in {"turn_start", "turn_end"}
                  THEN /\ CommandStep(a, e.event)
                       /\ e.turn = obs'[a].turnIndex
                  ELSE e.turn = obs'[a].started]_vars

C32_Witness ==
    \E a \in Agents :
        /\ env[a]
        /\ hist[a].trace = <<"turn_start", "enable", "turn_end">>
        /\ obs[a].started = 1
        /\ obs[a].turnIndex = 0
        /\ Len(auditFile[a]) = 2
        /\ auditFile[a][1].event = "enabled"
        /\ auditFile[a][1].turn = 1
        /\ auditFile[a][2].event = "turn_end"
        /\ auditFile[a][2].turn = 0

\* ------------------------------------------------------------------ ordering
\* process a was started on an agent directory without a repository and the
\* host's first event, and only session_start, opens the session
FreshStart(a) ==
    /\ hist[a].trace # <<>>
    /\ hist[a].trace[1] = "session_start"
    /\ Count(hist[a].trace, "session_start") = 1

IsStartCommit(c, a) == StartsWith(c.message, <<"[", a, ":start] session began">>)

\* the most recent lifecycle event of a trace ("" when there is none)
LastEvent(tr) ==
    LET idx == {i \in 1..Len(tr) : tr[i] \in LifecycleEvents}
    IN  IF idx = {} THEN ""
        ELSE tr[CHOOSE i \in idx : \A j \in idx : j <= i]

\* the commits of a's repository and the entries of its audit file are in
\* the order of a fresh start
StartOrder(a) ==
    /\ \A i \in 1..Len(Commits(a)), j \in 1..Len(Commits(a)) :
          /\ (Commits(a)[i].message = InitialMessage
                  /\ IsStartCommit(Commits(a)[j], a)) => i < j
          /\ (IsStartCommit(Commits(a)[i], a)
                  /\ IsTurnCommit(Commits(a)[j], a)) => i < j
    /\ \A i \in 1..Len(auditFile[a]), j \in 1..Len(auditFile[a]) :
          (auditFile[a][i].event = "git_init"
              /\ auditFile[a][j].event = "session_start") => i < j

\* C33: on a fresh start the 'agent initialized' commit precedes the
\* 'session began' commit, which precedes every turn commit, and the git_init
\* entry precedes the session_start entry; every commit is added after the
\* commits the repository holds, a turn commit while the turn_end it names
\* is the event being handled, so turn commits are in dispatch order.
C33_StartupOrder ==
    [][\A a \in Agents :
          /\ FreshStart(a)' => StartOrder(a)'
          /\ Commits(a)' # Commits(a)
                => /\ Len(Commits(a)') = Len(Commits(a)) + 1
                   /\ SubSeq(Commits(a)', 1, Len(Commits(a))) = Commits(a)
                   /\ IsTurnCommit(Last(Commits(a)'), a)
                         => /\ LastEvent(hist[a].trace) = "turn_end"
                            /\ Last(Commits(a)').message[4]
                                  = DigitChars[obs[a].turnIndex + 1]]_vars

C33_Witness ==
    \E a \in Agents :
        /\ FreshStart(a)
        /\ hist[a].trace = <<"session_start", "turn_end", "turn_end">>
        /\ Len(Commits(a)) = 4
        /\ Commits(a)[1].message = InitialMessage
        /\ IsStartCommit(Commits(a)[2], a)
        /\ IsTurnCommit(Commits(a)[3], a) /\ Commits(a)[3].message[4] = "1"
        /\ IsTurnCommit(Commits(a)[4], a) /\ Commits(a)[4].message[4] = "0"
        /\ auditFile[a][1].event = "git_init"
        /\ auditFile[a][2].event = "session_start"

\* ---------------------------------------------------------------- termination
\* C34: every lifecycle handler dispatched to a process eventually returns,
\* provided the subprocess calls and filesystem operations it awaits
\* complete (successfully or not); it waits on nothing else, so it returns
\* whatever the other agent process does, also when that process stops in
\* the middle of a handler.
C34_HandlersReturn ==
    \A a \in Active : (proc[a].pc # "idle") ~> (proc[a].pc = "idle")

C34_Witness ==
    \E a \in Active, b \in Agents \ Active :
        /\ hist[a].trace = <<"session_start", "turn_end">>
        /\ Idle(a)
        /\ Len(Commits(a)) = 3
        /\ hist[b].trace = <<"session_start">>
        /\ proc[b].pc = "init"

\* ------------------------------------------------------------------ snapshots
CounterNames == {"commits", "commitErrors", "toolCalls", "turns", "patchesCaptured"}

\* the step appends to a's audit file exactly one entry of kind ev, which
\* embeds the five counters as they are when the event is handled
SnapshotAppended(a, ev) ==
    /\ Len(auditFile'[a]) = Len(auditFile[a]) + 1
    /\ SubSeq(auditFile'[a], 1, Len(auditFile[a])) = auditFile[a]
    /\ LET e == Last(auditFile'[a])
       IN  /\ e.event = ev
           /\ DOMAIN e.data.stats = CounterNames
           /\ \A c \in CounterNames : e.data.stats[c] = proc[a].stats[c]
           /\ proc'[a].stats = proc[a].stats

\* C35 as stated: a session_shutdown or agent_end handled while the engine
\* is enabled appends exactly one entry of its kind, which embeds the values
\* the five counters have at that moment.
C35_Original ==
    [][\A a \in Agents : \A ev \in {"session_shutdown", "agent_end"} :
          (CommandStep(a, ev) /\ proc[a].enabled) => SnapshotAppended(a, ev)]_vars

\* C35 amended: the same provided the append to the audit file succeeds; when
\* it fails, or the engine is disabled, the event appends nothing.
C35_SnapshotEntry ==
    [][\A a \in Agents : \A ev \in {"session_shutdown", "agent_end"} :
          CommandStep(a, ev)
              => IF proc[a].enabled /\ hist'[a].nfs = hist[a].nfs
                 THEN SnapshotAppended(a, ev)
                 ELSE auditFile'[a] = auditFile[a]]_vars

C35_Witness ==
    \E a \in Agents :
        /\ hist[a].trace = <<"session_start", "turn_end", "session_shutdown">>
        /\ hist[a].failed = {"exec"}
        /\ Last(auditFile[a]).event = "session_shutdown"
        /\ Last(auditFile[a]).data.stats.commits = 1
        /\ Last(auditFile[a]).data.stats.commitErrors = 1
        /\ proc[a].stats.commits = 1
        /\ proc[a].stats.commitErrors = 1

\* ---------------------------------------------------------------- append-only
\* C36: every step of a handler or command leaves the existing lines of the
\* audit file as they are: the file after the step is the file before it
\* with zero or more entries appended at the end.
C36_AuditAppendOnly ==
    [][\A a \in Agents :
          /\ Len(auditFile'[a]) >= Len(auditFile[a])
          /\ SubSeq(auditFile'[a], 1, Len(auditFile[a])) = auditFile[a]]_vars

C36_Witness ==
    \E a \in Agents :
        /\ hist[a].trace = <<"session_start", "turn_end", "disable">>
        /\ Len(auditFile[a]) = 4
        /\ auditFile[a][1].event = "git_init"
        /\ auditFile[a][2].event = "session_start"
        /\ auditFile[a][3].event = "turn_end"
        /\ auditFile[a][4].event = "commit_error"

\* ------------------------------------------------------------ commit message
\* '[{agent}:turn-{turnIndex}] {N} tools' or '... no tools' for the turn_end
\* last dispatched to a, with ' [target: {branch}]' when a label is configured
ExpectedTurnMessage(a) ==
    <<"[", a, ":turn-">> \o OneDigit(obs[a].turnIndex) \o <<"] ">>
        \o (IF obs[a].toolCount = 0 THEN <<"no tools">>
            ELSE OneDigit(obs[a].toolCount) \o <<" tools">>)
        \o (IF config[a].targetBranch = None THEN <<>>
            ELSE <<" [target: ">> \o config[a].targetBranch \o <<"]">>)

\* C37: the commit created by a turn_end handler has the message
\* '[{agent}:turn-{turnIndex}] {N} tools' when the event carried N > 0 tool
\* results and '[{agent}:turn-{turnIndex}] no tools' when it carried none,
\* followed by ' [target: {branch}]' exactly when a target-branch label is
\* configured.
C37_TurnCommitMessage ==
    [][\A a \in Agents :
          (Commits(a)' # Commits(a) /\ proc[a].handler = "turn_end")
              => Last(Commits(a)').message = ExpectedTurnMessage(a)]_vars

C37_Witness ==
    \E a \in Agents :
        /\ config[a].targetBranch = <<"feat">>
        /\ hist[a].trace = <<"session_start", "turn_end", "turn_end">>
        /\ Len(Commits(a)) = 4
        /\ Commits(a)[3].message
              = <<"[", a, ":turn-", "1", "] ", "2", " tools", " [target: ", "feat", "]">>
        /\ Commits(a)[4].message
              = <<"[", a, ":turn-", "0", "] ", "no tools", " [target: ", "feat", "]">>

====
